---- MODULE Spec2Model ----
(***************************************************************************)
(* Model of the two operation tools of the developers agent toolkit:       *)
(*   generateApiSampleRequest.ts  (generateExample, execute)               *)
(*   searchApiOperations.ts       (execute)                                *)
(*                                                                         *)
(* JavaScript strings are sequences of one-character strings, JavaScript   *)
(* values are records tagged with their kind, and an object is the         *)
(* sequence of its own <<key, value>> pairs in own-property-key order.     *)
(***************************************************************************)
EXTENDS Integers, Sequences, FiniteSets

(***************************************************************************)
(* Bounds of the model.                                                    *)
(***************************************************************************)
\* nesting depth of the schema nodes fed to generateExample
MaxDepth == 2
\* length of the `parameters` sequence of an operation document
MaxParams == 3
\* length of the operation list returned to the search tool
MaxOps == 2

(***************************************************************************)
(* String literals of the source, as character sequences.                  *)
(***************************************************************************)
K_example == <<"e", "x", "a", "m", "p", "l", "e">>
K_default == <<"d", "e", "f", "a", "u", "l", "t">>
K_enum == <<"e", "n", "u", "m">>
K_type == <<"t", "y", "p", "e">>
K_items == <<"i", "t", "e", "m", "s">>
K_properties == <<"p", "r", "o", "p", "e", "r", "t", "i", "e", "s">>
K_servers == <<"s", "e", "r", "v", "e", "r", "s">>
K_url == <<"u", "r", "l">>
K_path == <<"p", "a", "t", "h">>
K_parameters == <<"p", "a", "r", "a", "m", "e", "t", "e", "r", "s">>
K_name == <<"n", "a", "m", "e">>
K_in == <<"i", "n">>
K_schema == <<"s", "c", "h", "e", "m", "a">>
K_requestBody == <<"r", "e", "q", "u", "e", "s", "t", "B", "o", "d", "y">>
K_content == <<"c", "o", "n", "t", "e", "n", "t">>
K_applicationJson == <<"a", "p", "p", "l", "i", "c", "a", "t", "i", "o", "n", "/", "j", "s", "o", "n">>
K_operations == <<"o", "p", "e", "r", "a", "t", "i", "o", "n", "s">>
K_summary == <<"s", "u", "m", "m", "a", "r", "y">>
K_description == <<"d", "e", "s", "c", "r", "i", "p", "t", "i", "o", "n">>
K_tags == <<"t", "a", "g", "s">>
K_proto == <<"_", "_", "p", "r", "o", "t", "o", "_", "_">>
S_example == <<"e", "x", "a", "m", "p", "l", "e">>
S_string == <<"s", "t", "r", "i", "n", "g">>
S_integer == <<"i", "n", "t", "e", "g", "e", "r">>
S_number == <<"n", "u", "m", "b", "e", "r">>
S_boolean == <<"b", "o", "o", "l", "e", "a", "n">>
S_array == <<"a", "r", "r", "a", "y">>
S_object == <<"o", "b", "j", "e", "c", "t">>
S_path == <<"p", "a", "t", "h">>
S_query == <<"q", "u", "e", "r", "y">>
S_header == <<"h", "e", "a", "d", "e", "r">>
S_cookie == <<"c", "o", "o", "k", "i", "e">>
S_undefined == <<"u", "n", "d", "e", "f", "i", "n", "e", "d">>
S_null == <<"n", "u", "l", "l">>
S_true == <<"t", "r", "u", "e">>
S_false == <<"f", "a", "l", "s", "e">>
S_objectObject == <<"[", "o", "b", "j", "e", "c", "t", " ", "O", "b", "j", "e", "c", "t", "]">>
DefaultServerUrl == <<"h", "t", "t", "p", "s", ":", "/", "/", "a", "p", "i", ".", "m", "a", "s", "t", "e", "r", "c", "a", "r", "d", ".", "c", "o", "m">>
ContentTypeHeader == <<"C", "o", "n", "t", "e", "n", "t", "-", "T", "y", "p", "e", ":", " ", "a", "p", "p", "l", "i", "c", "a", "t", "i", "o", "n", "/", "j", "s", "o", "n">>
S_curl == <<"c", "u", "r", "l", " ", "-", "X", " ">>
S_dashH == <<" ", "-", "H", " ", "'">>
S_dashD == <<" ", "-", "d", " ", "'">>
InvalidDetailsMessage == <<"I", "n", "v", "a", "l", "i", "d", " ", "o", "p", "e", "r", "a", "t", "i", "o", "n", " ", "d", "e", "t", "a", "i", "l", "s", " ", "r", "e", "t", "u", "r", "n", "e", "d", " ", "b", "y", " ", "A", "P", "I">>

Lowers == <<"a", "b", "c", "d", "e", "f", "g", "h", "i", "j", "k", "l", "m", "n", "o", "p", "q", "r", "s", "t", "u", "v", "w", "x", "y", "z">>
Uppers == <<"A", "B", "C", "D", "E", "F", "G", "H", "I", "J", "K", "L", "M", "N", "O", "P", "Q", "R", "S", "T", "U", "V", "W", "X", "Y", "Z">>
Digits == <<"0", "1", "2", "3", "4", "5", "6", "7", "8", "9">>
\* the ASCII characters encodeURIComponent escapes, and their escapes
Reserved == <<" ", "\"", "#", "$", "%", "&", "+", ",", "/", ":", ";", "<", "=", ">", "?", "@", "[", "\\", "]", "^", "{", "|", "}">>
ReservedCode == <<<<"%", "2", "0">>, <<"%", "2", "2">>, <<"%", "2", "3">>, <<"%", "2", "4">>, <<"%", "2", "5">>, <<"%", "2", "6">>, <<"%", "2", "B">>, <<"%", "2", "C">>, <<"%", "2", "F">>, <<"%", "3", "A">>, <<"%", "3", "B">>, <<"%", "3", "C">>, <<"%", "3", "D">>, <<"%", "3", "E">>, <<"%", "3", "F">>, <<"%", "4", "0">>, <<"%", "5", "B">>, <<"%", "5", "C">>, <<"%", "5", "D">>, <<"%", "5", "E">>, <<"%", "7", "B">>, <<"%", "7", "C">>, <<"%", "7", "D">>>>

(***************************************************************************)
(* JavaScript values.                                                      *)
(***************************************************************************)
JUndefined == [k |-> "undefined", b |-> FALSE, n |-> 0, s |-> <<>>, a |-> <<>>, o |-> <<>>]
JNull == [k |-> "null", b |-> FALSE, n |-> 0, s |-> <<>>, a |-> <<>>, o |-> <<>>]
JBool(x) == [k |-> "boolean", b |-> x, n |-> 0, s |-> <<>>, a |-> <<>>, o |-> <<>>]
JNum(x) == [k |-> "number", b |-> FALSE, n |-> x, s |-> <<>>, a |-> <<>>, o |-> <<>>]
JStr(x) == [k |-> "string", b |-> FALSE, n |-> 0, s |-> x, a |-> <<>>, o |-> <<>>]
JArr(x) == [k |-> "array", b |-> FALSE, n |-> 0, s |-> <<>>, a |-> x, o |-> <<>>]
JObj(x) == [k |-> "object", b |-> FALSE, n |-> 0, s |-> <<>>, a |-> <<>>, o |-> x]

\* x === undefined
IsUndefined(v) == v.k = "undefined"
\* the operand test of ?? and ?.
IsNullish(v) == v.k \in {"undefined", "null"}
\* Array.isArray
IsArray(v) == v.k = "array"
\* ToBoolean: the test of if (x), !x, x || y and x ? y : z
Truthy(v) ==
    CASE v.k \in {"undefined", "null"} -> FALSE
      [] v.k = "boolean" -> v.b
      [] v.k = "number" -> v.n # 0
      [] v.k = "string" -> Len(v.s) > 0
      [] OTHER -> TRUE

\* a ?? b
Coalesce(x, y) == IF IsNullish(x) THEN y ELSE x

\* the position of an own key of an object's pairs, 0 when it has none
KeyIndex(pairs, key) ==
    IF \E i \in 1..Len(pairs) : pairs[i][1] = key
    THEN CHOOSE i \in 1..Len(pairs) : pairs[i][1] = key
    ELSE 0

\* v.key on a value that is not null or undefined: the keys the tools read
\* are own keys of parsed objects only (none lives on a prototype)
Get(v, key) ==
    IF v.k = "object" /\ KeyIndex(v.o, key) # 0
    THEN v.o[KeyIndex(v.o, key)][2]
    ELSE JUndefined

\* v[0] on a value that is not null or undefined
First(v) ==
    CASE v.k = "array" -> IF Len(v.a) > 0 THEN v.a[1] ELSE JUndefined
      [] v.k = "string" -> IF Len(v.s) > 0 THEN JStr(<<v.s[1]>>) ELSE JUndefined
      [] v.k = "object" -> Get(v, <<"0">>)
      [] OTHER -> JUndefined

(***************************************************************************)
(* Strings.                                                                *)
(***************************************************************************)
CharIndex(seq, c) ==
    IF \E i \in 1..Len(seq) : seq[i] = c
    THEN CHOOSE i \in 1..Len(seq) : seq[i] = c
    ELSE 0

ToUpperChar(c) == IF CharIndex(Lowers, c) # 0 THEN Uppers[CharIndex(Lowers, c)] ELSE c
ToLowerChar(c) == IF CharIndex(Uppers, c) # 0 THEN Lowers[CharIndex(Uppers, c)] ELSE c
\* String.prototype.toUpperCase / toLowerCase
toUpperCase(s) == [i \in 1..Len(s) |-> ToUpperChar(s[i])]
toLowerCase(s) == [i \in 1..Len(s) |-> ToLowerChar(s[i])]

\* the decimal digits of a natural number
RECURSIVE NatToString(_)
NatToString(n) ==
    IF n < 10 THEN <<Digits[n + 1]>>
    ELSE NatToString(n \div 10) \o <<Digits[(n % 10) + 1]>>

\* Number::toString of an integer
NumToString(n) == IF n < 0 THEN <<"-">> \o NatToString(0 - n) ELSE NatToString(n)

\* the parts joined with sep: Array.prototype.join on strings
RECURSIVE Join(_, _)
Join(parts, sep) ==
    IF Len(parts) = 0 THEN <<>>
    ELSE IF Len(parts) = 1 THEN parts[1]
    ELSE parts[1] \o sep \o Join(Tail(parts), sep)

\* String(value), and the coercion of a template literal
RECURSIVE StringOf(_)
StringOf(v) ==
    CASE v.k = "undefined" -> S_undefined
      [] v.k = "null" -> S_null
      [] v.k = "boolean" -> IF v.b THEN S_true ELSE S_false
      [] v.k = "number" -> NumToString(v.n)
      [] v.k = "string" -> v.s
      [] v.k = "array" ->
            Join([i \in 1..Len(v.a) |->
                    IF IsNullish(v.a[i]) THEN <<>> ELSE StringOf(v.a[i])], <<",">>)
      [] OTHER -> S_objectObject

\* the first position at which pat occurs in s, 0 when it does not occur
IndexOf(s, pat) ==
    LET hits == {p \in 1..(Len(s) - Len(pat) + 1) :
                    SubSeq(s, p, p + Len(pat) - 1) = pat}
    IN IF hits = {} THEN 0 ELSE CHOOSE p \in hits : \A q \in hits : p <= q

\* String.prototype.includes
Includes(s, pat) == IndexOf(s, pat) # 0

\* encodeURIComponent of one character
EncodeChar(c) ==
    IF CharIndex(Reserved, c) # 0 THEN ReservedCode[CharIndex(Reserved, c)] ELSE <<c>>

\* encodeURIComponent
RECURSIVE encodeURIComponent(_)
encodeURIComponent(s) ==
    IF Len(s) = 0 THEN <<>>
    ELSE EncodeChar(s[1]) \o encodeURIComponent(Tail(s))

\* GetSubstitution: the replacement text of String.prototype.replace, in
\* which $$, $& and $' are patterns (and $ with a backtick, a character the
\* model's alphabet does not hold)
RECURSIVE GetSubstitution(_, _, _, _)
GetSubstitution(matched, before, after, repl) ==
    IF Len(repl) = 0 THEN <<>>
    ELSE IF repl[1] = "$" /\ Len(repl) >= 2 /\ repl[2] \in {"$", "&", "'"}
    THEN (CASE repl[2] = "$" -> <<"$">>
            [] repl[2] = "&" -> matched
            [] OTHER -> after)
         \o GetSubstitution(matched, before, after, SubSeq(repl, 3, Len(repl)))
    ELSE <<repl[1]>> \o GetSubstitution(matched, before, after, Tail(repl))

\* s.replace(pat, repl) with a string pattern: the first occurrence only
StrReplace(s, pat, repl) ==
    LET p == IndexOf(s, pat)
        before == SubSeq(s, 1, p - 1)
        after == SubSeq(s, p + Len(pat), Len(s))
    IN IF p = 0 THEN s
       ELSE before \o GetSubstitution(pat, before, after, repl) \o after

(***************************************************************************)
(* Objects: own-property-key order, property creation and assignment.      *)
(***************************************************************************)
\* a canonical array index ("0", "7", "12"): such keys come first in an
\* object's own keys, in ascending numeric order
IsIndexKey(key) ==
    /\ Len(key) > 0
    /\ \A i \in 1..Len(key) : CharIndex(Digits, key[i]) # 0
    /\ (Len(key) > 1 => key[1] # "0")

RECURSIVE IndexValue(_)
IndexValue(key) ==
    IF Len(key) = 0 THEN 0
    ELSE 10 * IndexValue(SubSeq(key, 1, Len(key) - 1)) + (CharIndex(Digits, key[Len(key)]) - 1)

\* CreateDataProperty on an ordinary object
CreateDataProperty(pairs, key, val) ==
    IF KeyIndex(pairs, key) # 0
    THEN [pairs EXCEPT ![KeyIndex(pairs, key)] = <<key, val>>]
    ELSE IF IsIndexKey(key)
    THEN LET later == {i \in 1..Len(pairs) :
                          \/ ~IsIndexKey(pairs[i][1])
                          \/ IndexValue(pairs[i][1]) > IndexValue(key)}
             at == IF later = {} THEN Len(pairs) + 1
                   ELSE CHOOSE i \in later : \A j \in later : i <= j
         IN SubSeq(pairs, 1, at - 1) \o <<<<key, val>>>> \o SubSeq(pairs, at, Len(pairs))
    ELSE Append(pairs, <<key, val>>)

\* obj[key] = val on a plain object: the key __proto__ reaches the setter
\* of Object.prototype, which changes the prototype (or nothing) and
\* creates no own property
SetProperty(pairs, key, val) ==
    IF key = K_proto THEN pairs ELSE CreateDataProperty(pairs, key, val)

\* Object.entries
ObjectEntries(v) ==
    CASE v.k = "object" -> v.o
      [] v.k = "array" -> [i \in 1..Len(v.a) |-> <<NatToString(i - 1), v.a[i]>>]
      [] v.k = "string" -> [i \in 1..Len(v.s) |-> <<NatToString(i - 1), JStr(<<v.s[i]>>)>>]
      [] OTHER -> <<>>

(***************************************************************************)
(* generateExample (generateApiSampleRequest.ts).                          *)
(***************************************************************************)
RECURSIVE generateExample(_)
RECURSIVE GenerateProperties(_, _)

\* the for loop over Object.entries(schema.properties)
GenerateProperties(entries, obj) ==
    IF Len(entries) = 0 THEN obj
    ELSE GenerateProperties(Tail(entries),
            SetProperty(obj, entries[1][1], generateExample(entries[1][2])))

generateExample(schema) ==
    IF ~Truthy(schema) THEN JStr(S_example)
    ELSE IF ~IsUndefined(Get(schema, K_example)) THEN Get(schema, K_example)
    ELSE IF ~IsUndefined(Get(schema, K_default)) THEN Get(schema, K_default)
    ELSE IF IsArray(Get(schema, K_enum)) /\ Len(Get(schema, K_enum).a) > 0
    THEN Get(schema, K_enum).a[1]
    ELSE LET type == Get(schema, K_type)
         IN CASE type = JStr(S_string) -> JStr(S_string)
              [] type = JStr(S_integer) -> JNum(0)
              [] type = JStr(S_number) -> JNum(0)
              [] type = JStr(S_boolean) -> JBool(TRUE)
              [] type = JStr(S_array) -> JArr(<<generateExample(Get(schema, K_items))>>)
              [] type = JStr(S_object) ->
                    IF Truthy(Get(schema, K_properties))
                    THEN JObj(GenerateProperties(ObjectEntries(Get(schema, K_properties)), <<>>))
                    ELSE JObj(<<>>)
              [] OTHER -> JStr(S_example)

(***************************************************************************)
(* JSON.  A JSON text is modelled by its syntax tree, with the members of  *)
(* an object in the order the text declares them; a text that is not JSON  *)
(* is modelled by its characters.                                          *)
(***************************************************************************)
JsonText(tree) == [json |-> TRUE, raw |-> <<>>, doc |-> tree]
RawText(chars) == [json |-> FALSE, raw |-> chars, doc |-> JUndefined]

\* JSON.parse of a JSON text: objects are built member by member with
\* CreateDataProperty, so a repeated key keeps its last value and index
\* keys move to the front
RECURSIVE JSONParse(_)
RECURSIVE ParseMembers(_, _)
ParseMembers(members, obj) ==
    IF Len(members) = 0 THEN obj
    ELSE ParseMembers(Tail(members),
            CreateDataProperty(obj, members[1][1], JSONParse(members[1][2])))

JSONParse(tree) ==
    CASE tree.k = "object" -> JObj(ParseMembers(tree.o, <<>>))
      [] tree.k = "array" -> JArr([i \in 1..Len(tree.a) |-> JSONParse(tree.a[i])])
      [] OTHER -> tree

\* QuoteJSONString: the double quote and the backslash are escaped
RECURSIVE EscapeJSON(_)
EscapeJSON(s) ==
    IF Len(s) = 0 THEN <<>>
    ELSE (IF s[1] \in {"\"", "\\"} THEN <<"\\", s[1]>> ELSE <<s[1]>>) \o EscapeJSON(Tail(s))

QuoteJSON(s) == <<"\"">> \o EscapeJSON(s) \o <<"\"">>

\* JSON.stringify(value, null, gap) of a defined value; indent is the
\* indentation of the enclosing line
RECURSIVE SerializeJSON(_, _, _)
SerializeJSON(v, indent, gap) ==
    LET inner == indent \o gap
        sep == IF Len(gap) = 0 THEN <<",">> ELSE <<",", "\n">> \o inner
        open == IF Len(gap) = 0 THEN <<>> ELSE <<"\n">> \o inner
        close == IF Len(gap) = 0 THEN <<>> ELSE <<"\n">> \o indent
        colon == IF Len(gap) = 0 THEN <<":">> ELSE <<":", " ">>
    IN CASE v.k \in {"undefined", "null"} -> S_null
         [] v.k = "boolean" -> IF v.b THEN S_true ELSE S_false
         [] v.k = "number" -> NumToString(v.n)
         [] v.k = "string" -> QuoteJSON(v.s)
         [] v.k = "array" ->
               IF Len(v.a) = 0 THEN <<"[", "]">>
               ELSE <<"[">> \o open
                    \o Join([i \in 1..Len(v.a) |-> SerializeJSON(v.a[i], inner, gap)], sep)
                    \o close \o <<"]">>
         [] OTHER ->
               LET kept == SelectSeq(v.o, LAMBDA m : ~IsUndefined(m[2]))
               IN IF Len(kept) = 0 THEN <<"{", "}">>
                  ELSE <<"{">> \o open
                       \o Join([i \in 1..Len(kept) |->
                               QuoteJSON(kept[i][1]) \o colon
                               \o SerializeJSON(kept[i][2], inner, gap)], sep)
                       \o close \o <<"}">>

\* JSON.stringify(value)
JSONStringify(v) == SerializeJSON(v, <<>>, <<>>)
\* JSON.stringify(value, null, 2)
JSONStringifyPretty(v) == SerializeJSON(v, <<>>, <<" ", " ">>)

(***************************************************************************)
(* State.  One invocation of one tool: the caller's inputs, the requests   *)
(* issued to the lookup collaborator (api), the position in execute, the   *)
(* local variables of execute, and how the invocation ended.               *)
(***************************************************************************)
VARIABLES
    tool,         \* "sample" | "search" | "generate": the function invoked
    context,      \* ToolContext
    params,       \* the caller's arguments
    pc,           \* the position in the function
    calls,        \* the requests issued to the lookup collaborator, in order
    promise,      \* the promise of the request: none, pending, fulfilled or rejected
    outcome,      \* how the invocation ended: a returned string or a thrown error
    method,       \* sample: params.method.toUpperCase()
    detailsText,  \* sample: the text getApiOperationDetails resolved with
    details,      \* sample: JSON.parse(detailsText)
    serverUrl, urlPath, queryParams, headers, idx, value, body, url, command,
    origin,       \* for each character of urlPath, the index of the parameter
                  \* whose value put it there, 0 for a character of the template
    response,     \* search: the text getApiOperations resolved with
    parsed, operations, query, tag, filtered,
    genIn, genOut \* generate: the schema node given to generateExample, its result

sampleVars == <<method, detailsText, details, serverUrl, urlPath, queryParams,
                headers, idx, value, body, url, command, origin>>
searchVars == <<response, parsed, operations, query, tag, filtered>>
genVars == <<genIn, genOut>>
inputVars == <<tool, context, params>>
vars == <<inputVars, pc, calls, promise, outcome, sampleVars, searchVars, genVars>>

NoError == [name |-> "", message |-> <<>>]
NoPromise == [state |-> "none", reason |-> NoError]
PendingPromise == [state |-> "pending", reason |-> NoError]
Fulfilled == [state |-> "fulfilled", reason |-> NoError]
RejectedWith(reason) == [state |-> "rejected", reason |-> reason]

Pending == [kind |-> "pending", value |-> <<>>, error |-> [name |-> "", message |-> <<>>]]
Returned(str) == [kind |-> "returned", value |-> str, error |-> [name |-> "", message |-> <<>>]]
Thrown(err) == [kind |-> "thrown", value |-> <<>>, error |-> err]

\* a TypeError raised by the runtime (property read on null or undefined,
\* call of something that is not a function)
TypeError == [name |-> "TypeError", message |-> <<>>]
\* new Error('Invalid operation details returned by API')
InvalidDetailsError == [name |-> "Error", message |-> InvalidDetailsMessage]

\* context.apiSpecificationPath ?? params.apiSpecificationPath
SpecPath == Coalesce(context.apiSpecificationPath, params.apiSpecificationPath)

(***************************************************************************)
(* execute of generateApiSampleRequest.ts.                                 *)
(***************************************************************************)
\* details.servers?.[0]?.url ?? 'https://api.mastercard.com'
ServerUrlOf(d) ==
    LET servers == Get(d, K_servers)
        first == IF IsNullish(servers) THEN JUndefined ELSE First(servers)
        u == IF IsNullish(first) THEN JUndefined ELSE Get(first, K_url)
    IN Coalesce(u, JStr(DefaultServerUrl))

\* details.path || path
UrlPathOf(d, path) == IF Truthy(Get(d, K_path)) THEN Get(d, K_path) ELSE JStr(path)

\* the sequence the for loop walks: nothing unless Array.isArray(details.parameters)
ParametersOf(d) ==
    IF ~IsNullish(d) /\ IsArray(Get(d, K_parameters)) THEN Get(d, K_parameters).a ELSE <<>>

\* param.example ?? generateExample(param.schema)
ValueOf(element) == Coalesce(Get(element, K_example), generateExample(Get(element, K_schema)))

\* the placeholder of a path parameter
Placeholder(param) == <<"{">> \o StringOf(Get(param, K_name)) \o <<"}">>

\* the substitution with the percent-encoding forgotten
SubstitutePathRaw(path, param, val) == StrReplace(path, Placeholder(param), StringOf(val))

\* urlPath.replace(placeholder, encodeURIComponent(String(value)))
SubstitutePath(path, param, val) ==
    StrReplace(path, Placeholder(param), encodeURIComponent(StringOf(val)))

\* one entry of queryParams
QueryEntry(param, val) ==
    encodeURIComponent(StringOf(Get(param, K_name))) \o <<"=">>
        \o encodeURIComponent(StringOf(val))

\* unshift in place of push
PushQueryFront(entries, entry) == <<entry>> \o entries

\* queryParams.push(entry)
PushQuery(entries, entry) == Append(entries, entry)

\* one entry of headers
HeaderLine(param, val) == StringOf(Get(param, K_name)) \o <<":", " ">> \o StringOf(val)

\* details.requestBody?.content?.['application/json']
JsonContentOf(d) ==
    LET requestBody == Get(d, K_requestBody)
        content == IF IsNullish(requestBody) THEN JUndefined ELSE Get(requestBody, K_content)
    IN IF IsNullish(content) THEN JUndefined ELSE Get(content, K_applicationJson)

\* the origin of each character after a path substitution
OriginAfter(org, path, param, newPath, i) ==
    LET p == IndexOf(path, Placeholder(param))
        len == Len(Placeholder(param))
        put == Len(newPath) - (Len(path) - len)
    IN IF p = 0 THEN org
       ELSE SubSeq(org, 1, p - 1) \o [j \in 1..put |-> i] \o SubSeq(org, p + len, Len(org))

\* lines 99-104: the arguments are read and the one request is issued
SampleCall ==
    /\ tool = "sample" /\ pc = "start"
    /\ method' = toUpperCase(params.method)
    /\ calls' = Append(calls, [fn |-> "getApiOperationDetails",
                               args |-> <<SpecPath, JStr(toUpperCase(params.method)),
                                          JStr(params.path)>>])
    /\ promise' = PendingPromise
    /\ pc' = "await"
    /\ UNCHANGED <<inputVars, outcome, detailsText, details, serverUrl, urlPath,
                   queryParams, headers, idx, value, body, url, command, origin,
                   searchVars, genVars>>

\* lines 106-111: JSON.parse, and the error thrown on a text that is not JSON
SampleParse ==
    /\ tool = "sample" /\ pc = "parse"
    /\ IF detailsText.json
       THEN /\ details' = JSONParse(detailsText.doc)
            /\ pc' = "setup"
            /\ UNCHANGED outcome
       ELSE /\ outcome' = Thrown(InvalidDetailsError)
            /\ pc' = "done"
            /\ UNCHANGED details
    /\ UNCHANGED <<inputVars, calls, promise, method, detailsText, serverUrl, urlPath,
                   queryParams, headers, idx, value, body, url, command, origin,
                   searchVars, genVars>>

\* lines 113-118: the base URL, the URL template and the empty sequences;
\* details.servers on null throws
SampleSetup ==
    /\ tool = "sample" /\ pc = "setup"
    /\ IF IsNullish(details)
       THEN /\ outcome' = Thrown(TypeError)
            /\ pc' = "done"
            /\ UNCHANGED <<serverUrl, urlPath, origin>>
       ELSE /\ serverUrl' = ServerUrlOf(details)
            /\ urlPath' = UrlPathOf(details, params.path)
            /\ origin' = [j \in 1..Len(StringOf(UrlPathOf(details, params.path))) |-> 0]
            /\ pc' = "params"
            /\ UNCHANGED outcome
    /\ queryParams' = <<>>
    /\ headers' = <<>>
    /\ idx' = 1
    /\ UNCHANGED <<inputVars, calls, promise, method, detailsText, details, value, body, url,
                   command, searchVars, genVars>>

\* the parameter the loop is at, and its location
ParamNow == ParametersOf(details)[idx]
LocationNow == Get(ParamNow, K_in)

\* param.example on null or undefined throws, and so does replace on a
\* template that is no string
ParamThrows ==
    IsNullish(ParamNow) \/ (LocationNow = JStr(S_path) /\ urlPath.k # "string")

\* lines 121-136: one iteration of the loop over details.parameters
SampleParam ==
    /\ tool = "sample" /\ pc = "params"
    /\ idx <= Len(ParametersOf(details))
    /\ ~ParamThrows
    /\ value' = ValueOf(ParamNow)
    /\ urlPath' = IF LocationNow = JStr(S_path)
                  THEN JStr(SubstitutePath(urlPath.s, ParamNow, ValueOf(ParamNow)))
                  ELSE urlPath
    /\ origin' = IF LocationNow = JStr(S_path)
                 THEN OriginAfter(origin, urlPath.s, ParamNow,
                         SubstitutePath(urlPath.s, ParamNow, ValueOf(ParamNow)), idx)
                 ELSE origin
    /\ queryParams' = IF LocationNow = JStr(S_query)
                      THEN PushQuery(queryParams, QueryEntry(ParamNow, ValueOf(ParamNow)))
                      ELSE queryParams
    /\ headers' = IF LocationNow = JStr(S_header)
                  THEN Append(headers, HeaderLine(ParamNow, ValueOf(ParamNow)))
                  ELSE headers
    /\ idx' = idx + 1
    /\ UNCHANGED <<inputVars, calls, promise, outcome, pc, method, detailsText, details,
                   serverUrl, body, url, command, searchVars, genVars>>

\* lines 122-128: the iteration throws a TypeError
SampleParamThrows ==
    /\ tool = "sample" /\ pc = "params"
    /\ idx <= Len(ParametersOf(details))
    /\ ParamThrows
    /\ outcome' = Thrown(TypeError)
    /\ pc' = "done"
    /\ value' = IF IsNullish(ParamNow) THEN value ELSE ValueOf(ParamNow)
    /\ UNCHANGED <<inputVars, calls, promise, method, detailsText, details, serverUrl,
                   urlPath, origin, queryParams, headers, idx, body, url, command,
                   searchVars, genVars>>

\* the content type put before the parameters' headers
HeadersWithBodyFirst(hs, content) ==
    IF Truthy(content) THEN <<ContentTypeHeader>> \o hs ELSE hs

\* the body and the headers after the body block
BodyOf(content) == IF Truthy(content) THEN ValueOf(content) ELSE JUndefined
HeadersWithBody(hs, content) ==
    IF Truthy(content) THEN Append(hs, ContentTypeHeader) ELSE hs

\* lines 139-145: the JSON body, once the loop is over
SampleBody ==
    /\ tool = "sample" /\ pc = "params"
    /\ idx > Len(ParametersOf(details))
    /\ body' = BodyOf(JsonContentOf(details))
    /\ headers' = HeadersWithBody(headers, JsonContentOf(details))
    /\ pc' = "url"
    /\ UNCHANGED <<inputVars, calls, promise, outcome, method, detailsText, details, serverUrl,
                   urlPath, queryParams, idx, value, url, command, origin,
                   searchVars, genVars>>

\* lines 147-150
ComposeUrl(server, path, entries) ==
    StringOf(server) \o StringOf(path)
        \o (IF Len(entries) > 0 THEN <<"?">> \o Join(entries, <<"&">>) ELSE <<>>)

SampleUrl ==
    /\ tool = "sample" /\ pc = "url"
    /\ url' = ComposeUrl(serverUrl, urlPath, queryParams)
    /\ pc' = "render"
    /\ UNCHANGED <<inputVars, calls, promise, outcome, method, detailsText, details, serverUrl,
                   urlPath, queryParams, headers, idx, value, body, command, origin,
                   searchVars, genVars>>

\* lines 154-156: the loop over headers
RECURSIVE AddHeaders(_, _)
AddHeaders(cmd, hs) ==
    IF Len(hs) = 0 THEN cmd
    ELSE AddHeaders(cmd \o S_dashH \o hs[1] \o <<"'">>, Tail(hs))

\* if (body) in place of if (body !== undefined)
AddBodyIfTruthy(cmd, b) ==
    IF Truthy(b) THEN cmd \o S_dashD \o JSONStringify(b) \o <<"'">> ELSE cmd

\* lines 157-159
AddBody(cmd, b) ==
    IF ~IsUndefined(b) THEN cmd \o S_dashD \o JSONStringify(b) \o <<"'">> ELSE cmd

\* lines 153-159
RenderCommand(m, u, hs, b) ==
    AddBody(AddHeaders(S_curl \o m \o <<" ", "'">> \o u \o <<"'">>, hs), b)

\* lines 152-161: the command is assembled and returned
SampleRender ==
    /\ tool = "sample" /\ pc = "render"
    /\ command' = RenderCommand(method, url, headers, body)
    /\ outcome' = Returned(RenderCommand(method, url, headers, body))
    /\ pc' = "done"
    /\ UNCHANGED <<inputVars, calls, promise, method, detailsText, details, serverUrl,
                   urlPath, queryParams, headers, idx, value, body, url, origin,
                   searchVars, genVars>>

(***************************************************************************)
(* execute of searchApiOperations.ts.                                      *)
(***************************************************************************)
\* lines 70-74: the one request is issued
SearchCall ==
    /\ tool = "search" /\ pc = "start"
    /\ calls' = Append(calls, [fn |-> "getApiOperations", args |-> <<SpecPath>>])
    /\ promise' = PendingPromise
    /\ pc' = "await"
    /\ UNCHANGED <<inputVars, outcome, sampleVars, searchVars, genVars>>

\* lines 75-82: a response that is not JSON is returned as it is
SearchParse ==
    /\ tool = "search" /\ pc = "parse"
    /\ IF response.json
       THEN /\ parsed' = JSONParse(response.doc)
            /\ pc' = "normalize"
            /\ UNCHANGED outcome
       ELSE /\ outcome' = Returned(response.raw)
            /\ pc' = "done"
            /\ UNCHANGED parsed
    /\ UNCHANGED <<inputVars, calls, promise, sampleVars, response, operations, query, tag,
                   filtered, genVars>>

\* lines 86-90
OperationsOf(p) ==
    IF IsArray(Get(p, K_operations)) THEN Get(p, K_operations).a
    ELSE IF IsArray(p) THEN p.a
    ELSE <<>>

\* params.tag?.toLowerCase()
TagOf(t) == IF IsNullish(t) THEN JUndefined ELSE JStr(toLowerCase(t.s))

\* lines 86-94: parsed.operations on null throws
SearchNormalize ==
    /\ tool = "search" /\ pc = "normalize"
    /\ IF IsNullish(parsed)
       THEN /\ outcome' = Thrown(TypeError)
            /\ pc' = "done"
            /\ UNCHANGED <<operations, query, tag>>
       ELSE /\ operations' = OperationsOf(parsed)
            /\ query' = toLowerCase(params.query)
            /\ tag' = TagOf(params.tag)
            /\ pc' = "filter"
            /\ UNCHANGED outcome
    /\ UNCHANGED <<inputVars, calls, promise, sampleVars, response, parsed, filtered, genVars>>

\* (op.summary ?? ''), (op.description ?? '')
TextOf(op, key) == Coalesce(Get(op, key), JStr(<<>>))

\* lines 98-102 throw: a property read on null or undefined, or
\* toLowerCase on a value that is not a string
OpThrows(op) ==
    \/ IsNullish(op)
    \/ TextOf(op, K_summary).k # "string"
    \/ TextOf(op, K_description).k # "string"
    \/ /\ IsArray(Get(op, K_tags))
       /\ \E i \in 1..Len(Get(op, K_tags).a) : Get(op, K_tags).a[i].k # "string"

\* lines 100-102
LowerTags(op) ==
    IF IsArray(Get(op, K_tags))
    THEN [i \in 1..Len(Get(op, K_tags).a) |-> toLowerCase(Get(op, K_tags).a[i].s)]
    ELSE <<>>

\* lines 105-108
MatchesQuery(op, q) ==
    \/ Includes(toLowerCase(TextOf(op, K_summary).s), q)
    \/ Includes(toLowerCase(TextOf(op, K_description).s), q)
    \/ \E i \in 1..Len(LowerTags(op)) : Includes(LowerTags(op)[i], q)

\* a substring match in place of includes
TagsIncludeSubstring(tags, t) == \E i \in 1..Len(tags) : Includes(tags[i], t)

\* tags.includes(tag)
TagsInclude(tags, t) == \E i \in 1..Len(tags) : tags[i] = t

\* line 111
MatchesTag(op, t) == IF Truthy(t) THEN TagsInclude(LowerTags(op), t.s) ELSE TRUE

\* lines 96-114: the filter; the callback may throw
SearchFilter ==
    /\ tool = "search" /\ pc = "filter"
    /\ IF \E i \in 1..Len(operations) : OpThrows(operations[i])
       THEN /\ outcome' = Thrown(TypeError)
            /\ pc' = "done"
            /\ UNCHANGED filtered
       ELSE /\ filtered' = SelectSeq(operations,
                               LAMBDA op : MatchesQuery(op, query) /\ MatchesTag(op, tag))
            /\ pc' = "return"
            /\ UNCHANGED outcome
    /\ UNCHANGED <<inputVars, calls, promise, sampleVars, response, parsed, operations, query,
                   tag, genVars>>

\* line 118
SearchReturn ==
    /\ tool = "search" /\ pc = "return"
    /\ outcome' = Returned(JSONStringifyPretty(JArr(filtered)))
    /\ pc' = "done"
    /\ UNCHANGED <<inputVars, calls, promise, sampleVars, searchVars, genVars>>

(***************************************************************************)
(* generateExample applied to one schema node.                             *)
(***************************************************************************)
Generate ==
    /\ tool = "generate" /\ pc = "start"
    /\ genOut' = generateExample(genIn)
    /\ pc' = "done"
    /\ UNCHANGED <<inputVars, calls, promise, outcome, sampleVars, searchVars, genIn>>

(***************************************************************************)
(* Inputs: schema nodes.                                                   *)
(***************************************************************************)
Member(key, val) == <<<<key, val>>>>
TypeSchema(t) == JObj(Member(K_type, JStr(t)))
Literals == {JNull, JBool(FALSE), JNum(0), JStr(<<>>), JStr(<<"v">>)}

\* schema nodes without children, partial and malformed ones included
SchemaLeaves ==
    {JUndefined, JNull, JBool(FALSE), JNum(0), JStr(<<>>), JNum(5), JStr(<<"x">>),
     JArr(<<>>), JObj(<<>>)}
    \cup {TypeSchema(t) : t \in {S_string, S_integer, S_number, S_boolean, S_array,
                                 S_object, <<"d", "a", "t", "e">>}}
    \cup {JObj(Member(K_type, JNum(1)))}
    \cup {JObj(Member(K_type, JStr(S_integer)) \o Member(K_example, x)) : x \in Literals}
    \cup {JObj(Member(K_default, x) \o Member(K_type, JStr(S_boolean))) : x \in Literals}
    \cup {JObj(Member(K_enum, e) \o Member(K_type, JStr(S_string))) :
            e \in {JArr(<<>>), JArr(<<JStr(<<"v">>), JStr(<<"w">>)>>), JArr(<<JNull>>),
                   JStr(<<"v">>)}}
    \cup {JObj(Member(K_enum, JArr(<<JNum(2)>>)) \o Member(K_default, JNum(1))
               \o Member(K_example, JNum(0)))}
    \cup {JObj(Member(K_type, JStr(S_object)) \o Member(K_properties, p)) :
            p \in {JNull, JNum(0), JObj(<<>>)}}

PropertyKeys == {<<"a">>, <<"1">>, K_proto}

\* schema nodes nested to the given depth, as JSON declares them
RECURSIVE SchemaTrees(_)
SchemaTrees(depth) ==
    IF depth = 0 THEN SchemaLeaves
    ELSE LET below == SchemaTrees(depth - 1)
         IN SchemaLeaves
            \cup {JObj(Member(K_type, JStr(S_array)) \o Member(K_items, s)) : s \in below}
            \cup {JObj(Member(K_type, JStr(S_object))
                       \o Member(K_properties, JObj(Member(key, s)))) :
                    key \in PropertyKeys, s \in below}
            \cup {JObj(Member(K_type, JStr(S_object))
                       \o Member(K_properties,
                            JObj(Member(<<"b">>, TypeSchema(S_number)) \o Member(key, s)))) :
                    key \in PropertyKeys, s \in {TypeSchema(S_string), TypeSchema(S_object)}}

(***************************************************************************)
(* Inputs: operation documents and the caller of the sample tool.          *)
(***************************************************************************)
Parameter(name, in, rest) == JObj(Member(K_name, JStr(name)) \o Member(K_in, JStr(in)) \o rest)

ParameterSet ==
    {Parameter(<<"a">>, S_path, Member(K_example, JStr(<<"b">>))),
     Parameter(<<"b">>, S_path, Member(K_schema, TypeSchema(S_integer))),
     Parameter(<<"a">>, S_path, Member(K_example, JStr(<<"{", "b", "}", "$", "&">>))),
     Parameter(<<"q">>, S_query,
               Member(K_example, JBool(FALSE)) \o Member(K_schema, TypeSchema(S_boolean))),
     Parameter(<<"k", "=">>, S_query, Member(K_schema, TypeSchema(S_boolean))),
     Parameter(<<"X", "-", "A">>, S_header, Member(K_schema, TypeSchema(S_string))),
     Parameter(<<"h">>, S_header,
               Member(K_example, JNull) \o Member(K_schema, TypeSchema(S_integer))),
     Parameter(<<"c">>, S_cookie, Member(K_example, JStr(<<"z">>)))}

ParameterSeqs == UNION {[1..n -> ParameterSet] : n \in 0..MaxParams}

Templates ==
    {<<"/", "{", "a", "}", "/", "{", "a", "}">>,
     <<"/", "{", "{", "a", "}", "}">>,
     <<"/", "x", "/", "{", "b", "}">>}

HostH == <<"h", "t", "t", "p", ":", "/", "/", "h">>
HostG == <<"h", "t", "t", "p", ":", "/", "/", "g">>
Server(u) == JObj(Member(K_url, JStr(u)))

ServerChoices ==
    {<<>>,
     Member(K_servers, JArr(<<>>)),
     Member(K_servers, JArr(<<Server(HostH), Server(HostG)>>)),
     Member(K_servers, JArr(<<JObj(<<>>)>>)),
     Member(K_servers, JNull)}

AmountSchema ==
    JObj(Member(K_type, JStr(S_object))
         \o Member(K_properties,
              JObj(Member(<<"a", "m", "o", "u", "n", "t">>, TypeSchema(S_number))
                   \o Member(<<"7">>, TypeSchema(S_string)))))

Contents ==
    {JObj(<<>>),
     JObj(Member(K_schema, AmountSchema)),
     JObj(Member(K_example, JNull) \o Member(K_schema, AmountSchema)),
     JObj(Member(K_example, JNum(0)) \o Member(K_schema, AmountSchema)),
     JObj(Member(K_example, JStr(<<"\"">>))),
     JObj(Member(K_schema, JObj(Member(K_example, JNull)))),
     JObj(Member(K_schema,
            JObj(Member(K_type, JStr(S_array)) \o Member(K_items, TypeSchema(S_boolean)))))}

BodyChoices ==
    {<<>>,
     Member(K_requestBody, JObj(<<>>)),
     Member(K_requestBody, JObj(Member(K_content, JObj(<<>>)))),
     Member(K_requestBody,
        JObj(Member(K_content,
               JObj(Member(<<"t", "e", "x", "t">>, JObj(Member(K_example, JNum(1)))))))) }
    \cup {Member(K_requestBody, JObj(Member(K_content, JObj(Member(K_applicationJson, c))))) :
            c \in Contents}

\* documents that vary the path template and the parameters
ParameterDocuments ==
    {JObj(Member(K_servers, JArr(<<Server(HostH)>>)) \o Member(K_path, JStr(t))
          \o Member(K_parameters, JArr(ps))) :
        t \in Templates, ps \in ParameterSeqs}

\* documents that vary the servers and the request body
BodyDocuments ==
    {JObj(s \o Member(K_parameters,
                 JArr(<<Parameter(<<"X", "-", "A">>, S_header,
                                  Member(K_schema, TypeSchema(S_string)))>>))
          \o b) :
        s \in ServerChoices, b \in BodyChoices}

\* JSON that is not an operation document, or only partly one
OddDocuments ==
    {JNull, JNum(5), JStr(<<"s">>), JBool(TRUE), JArr(<<>>),
     JObj(Member(K_parameters, JObj(<<>>))),
     JObj(Member(K_parameters, JArr(<<JNull>>))),
     JObj(Member(K_path, JNum(7))
          \o Member(K_parameters,
               JArr(<<Parameter(<<"a">>, S_path, Member(K_example, JStr(<<"b">>)))>>)))}

NotJson == <<"N", "o", "t", " ", "F", "o", "u", "n", "d">>

\* what getApiOperationDetails may resolve with
DetailResponses ==
    {RawText(NotJson)}
    \cup {JsonText(d) : d \in ParameterDocuments \cup BodyDocuments \cup OddDocuments}

SpecPathA == <<"/", "s", ".", "y", "a", "m", "l">>
CallerPath == <<"/", "p", "/", "{", "a", "}">>

Arguments(specPath, m, p, q, t) ==
    [apiSpecificationPath |-> specPath, method |-> m, path |-> p, query |-> q, tag |-> t]

SampleCallers ==
    {<<[apiSpecificationPath |-> JStr(SpecPathA)],
       Arguments(JUndefined, <<"p", "o", "s", "t">>, CallerPath, <<>>, JUndefined)>>,
     <<[apiSpecificationPath |-> JUndefined],
       Arguments(JStr(SpecPathA), <<"G", "E", "T">>, CallerPath, <<>>, JUndefined)>>}

(***************************************************************************)
(* Inputs: operation lists and the caller of the search tool.              *)
(***************************************************************************)
T_Pay == <<"P", "a", "y">>
T_Fin == <<"F", "i", "n">>

OperationSet ==
    {JObj(Member(K_summary, JStr(T_Pay)) \o Member(K_description, JStr(<<"d">>))
          \o Member(K_tags, JArr(<<JStr(T_Fin)>>)) \o Member(K_path, JStr(<<"/", "p">>))),
     JObj(Member(K_summary, JStr(<<"x">>))
          \o Member(K_description, JStr(<<"t", "o", " ", "P", "A", "Y">>))),
     JObj(Member(K_tags, JArr(<<JStr(<<"p", "a", "y", "e", "e">>), JStr(<<"f", "i", "n">>)>>))),
     JObj(Member(K_summary, JStr(<<"p", "a", "y">>)) \o Member(K_tags, JStr(T_Fin))),
     JObj(Member(K_summary, JNull) \o Member(K_description, JStr(<<"p", "a", "y">>))
          \o Member(K_tags, JArr(<<JStr(<<>>)>>))),
     JObj(Member(K_summary, JStr(<<"n", "o">>)) \o Member(K_tags, JArr(<<JStr(T_Fin)>>)))}

OperationLists == UNION {[1..n -> OperationSet] : n \in 0..MaxOps}

\* operation entries with fields of the wrong type
OddOperationLists ==
    {<<JNull>>, <<JObj(Member(K_summary, JNum(5)))>>,
     <<JObj(Member(K_tags, JArr(<<JNum(5)>>)))>>,
     <<JObj(Member(K_description, JBool(TRUE)))>>}

\* what getApiOperations may resolve with
OperationResponses ==
    {RawText(NotJson)}
    \cup {JsonText(d) : d \in {JNull, JNum(5), JStr(<<"s">>), JObj(<<>>),
                               JObj(Member(K_operations, JStr(<<"s">>)))}}
    \cup {JsonText(JObj(Member(K_operations, JArr(l)))) :
            l \in OperationLists \cup OddOperationLists}
    \cup {JsonText(JArr(l)) : l \in {l \in OperationLists : Len(l) <= 1}}

SearchCallers ==
    {<<[apiSpecificationPath |-> JUndefined],
       Arguments(JStr(SpecPathA), <<>>, <<>>, q, t)>> :
        q \in {<<"p", "a", "y">>, <<"P", "A", "Y">>, <<>>},
        t \in {JUndefined, JStr(<<>>), JStr(T_Fin), JStr(<<"f", "i">>)}}
    \cup {<<[apiSpecificationPath |-> JStr(SpecPathA)],
            Arguments(JUndefined, <<>>, <<>>, <<"p", "a", "y">>, JStr(<<"F", "I", "N">>))>>}

(***************************************************************************)
(* The lookup collaborator and the await on it.                            *)
(***************************************************************************)
Rejections ==
    {[name |-> "Error", message |-> <<"f", "e", "t", "c", "h">>],
     [name |-> "Error", message |-> <<"4", "0", "4">>]}

\* a rejection caught and the request issued again
RejectedRetry(reason) == [pc |-> "start", outcome |-> Pending]

\* await on a rejected promise: the rejection is rethrown to the caller
Rejected(reason) == [pc |-> "done", outcome |-> Thrown(reason)]

NoText == RawText(<<>>)

\* the awaited request resolves with a text
AwaitResolved ==
    /\ pc = "await" /\ promise.state = "pending"
    /\ promise' = Fulfilled
    /\ \E text \in (IF tool = "sample" THEN DetailResponses ELSE OperationResponses) :
          /\ detailsText' = IF tool = "sample" THEN text ELSE detailsText
          /\ response' = IF tool = "search" THEN text ELSE response
    /\ pc' = "parse"
    /\ UNCHANGED <<inputVars, calls, outcome, method, details, serverUrl, urlPath,
                   queryParams, headers, idx, value, body, url, command, origin,
                   parsed, operations, query, tag, filtered, genVars>>

\* the awaited request rejects
AwaitRejected ==
    /\ pc = "await" /\ promise.state = "pending"
    /\ \E reason \in Rejections :
          /\ promise' = RejectedWith(reason)
          /\ pc' = Rejected(reason).pc
          /\ outcome' = Rejected(reason).outcome
    /\ UNCHANGED <<inputVars, calls, sampleVars, searchVars, genVars>>

(***************************************************************************)
(* Specifications.                                                         *)
(***************************************************************************)
InitLocals ==
    /\ pc = "start" /\ calls = <<>> /\ promise = NoPromise /\ outcome = Pending
    /\ method = <<>> /\ detailsText = NoText /\ details = JUndefined
    /\ serverUrl = JUndefined /\ urlPath = JUndefined
    /\ queryParams = <<>> /\ headers = <<>> /\ idx = 0 /\ value = JUndefined
    /\ body = JUndefined /\ url = <<>> /\ command = <<>> /\ origin = <<>>
    /\ response = NoText /\ parsed = JUndefined /\ operations = <<>>
    /\ query = <<>> /\ tag = JUndefined /\ filtered = <<>>
    /\ genOut = JUndefined

InitSample ==
    /\ tool = "sample"
    /\ \E caller \in SampleCallers : context = caller[1] /\ params = caller[2]
    /\ genIn = JUndefined
    /\ InitLocals

InitSearch ==
    /\ tool = "search"
    /\ \E caller \in SearchCallers : context = caller[1] /\ params = caller[2]
    /\ genIn = JUndefined
    /\ InitLocals

InitGenerate ==
    /\ tool = "generate"
    /\ context = [apiSpecificationPath |-> JUndefined]
    /\ params = Arguments(JUndefined, <<>>, <<>>, <<>>, JUndefined)
    /\ genIn \in {JSONParse(t) : t \in SchemaTrees(MaxDepth)}
    /\ InitLocals

Init == InitSample \/ InitSearch

SampleNext ==
    \/ SampleCall \/ AwaitResolved \/ AwaitRejected \/ SampleParse \/ SampleSetup
    \/ SampleParam \/ SampleParamThrows \/ SampleBody \/ SampleUrl \/ SampleRender

SearchNext ==
    \/ SearchCall \/ AwaitResolved \/ AwaitRejected \/ SearchParse \/ SearchNormalize
    \/ SearchFilter \/ SearchReturn

Next ==
    \/ SampleCall \/ SampleParse \/ SampleSetup \/ SampleParam \/ SampleParamThrows
    \/ SampleBody
    \/ SampleUrl \/ SampleRender
    \/ SearchCall \/ SearchParse \/ SearchNormalize \/ SearchFilter \/ SearchReturn
    \/ AwaitResolved \/ AwaitRejected

\* both tools
Spec == Init /\ [][Next]_vars
\* the sample-request tool
SpecSample == InitSample /\ [][SampleNext]_vars
\* the search tool
SpecSearch == InitSearch /\ [][SearchNext]_vars
\* generateExample as a function
SpecGenerate == InitGenerate /\ [][Generate]_vars


(***************************************************************************)
(* C1.  The value generateExample is claimed to return.                    *)
(***************************************************************************)
\* the node declares the field
Has(node, key) == node.k = "object" /\ KeyIndex(node.o, key) # 0

\* the declared properties of an object node
DeclaredProperties(node) ==
    IF Get(node, K_properties).k = "object" THEN Get(node, K_properties).o ELSE <<>>

\* the first matching rule: absent, example, default, enum, then the type
RECURSIVE ClaimedExample(_)
ClaimedExample(node) ==
    IF IsNullish(node) THEN JStr(S_example)
    ELSE IF Has(node, K_example) THEN Get(node, K_example)
    ELSE IF Has(node, K_default) THEN Get(node, K_default)
    ELSE IF IsArray(Get(node, K_enum)) /\ Len(Get(node, K_enum).a) > 0
    THEN Get(node, K_enum).a[1]
    ELSE IF Get(node, K_type) = JStr(S_string) THEN JStr(S_string)
    ELSE IF Get(node, K_type) \in {JStr(S_integer), JStr(S_number)} THEN JNum(0)
    ELSE IF Get(node, K_type) = JStr(S_boolean) THEN JBool(TRUE)
    ELSE IF Get(node, K_type) = JStr(S_array)
    THEN JArr(<<ClaimedExample(Get(node, K_items))>>)
    ELSE IF Get(node, K_type) = JStr(S_object)
    THEN JObj([i \in 1..Len(DeclaredProperties(node)) |->
                 <<DeclaredProperties(node)[i][1],
                   ClaimedExample(DeclaredProperties(node)[i][2])>>])
    ELSE JStr(S_example)

\* C1: for every schema node generateExample returns the value chosen by the
\* first matching rule (absent, example, default, enum, type); for an object
\* node that is a mapping whose keys are exactly the declared properties, in
\* declared order
C1_FirstMatchingRule ==
    (tool = "generate" /\ pc = "done") => genOut = ClaimedExample(genIn)

(***************************************************************************)
(* C2.  The value of a parameter and of the JSON content.                  *)
(***************************************************************************)
\* the element's own example whenever it has one, else the synthesized value
ClaimedValue(element) ==
    IF Has(element, K_example) THEN Get(element, K_example)
    ELSE generateExample(Get(element, K_schema))

\* the request was assembled up to its body
Assembled ==
    tool = "sample" /\ (pc \in {"url", "render"} \/ (pc = "done" /\ outcome.kind = "returned"))

\* C2: the value used for a parameter, and for the application/json content,
\* is the element's own example whenever an example is present (null, false,
\* 0 and the empty string included), and the synthesized value of its schema
\* only when no example is present
C2_ExampleWhenPresent ==
    /\ (tool = "sample" /\ pc = "params" /\ idx > 1)
          => value = ClaimedValue(ParametersOf(details)[idx - 1])
    /\ (Assembled /\ JsonContentOf(details).k = "object")
          => body = ClaimedValue(JsonContentOf(details))

(***************************************************************************)
(* C3.  Substitution of the path parameters.                               *)
(***************************************************************************)
\* the loop is about to process a path parameter on a string template
PathStep ==
    /\ tool = "sample" /\ pc = "params"
    /\ idx <= Len(ParametersOf(details))
    /\ ~IsNullish(ParametersOf(details)[idx])
    /\ Get(ParametersOf(details)[idx], K_in) = JStr(S_path)
    /\ urlPath.k = "string"

\* the placeholder of the parameter at hand, and where the template first holds it
NowPlaceholder == <<"{">> \o StringOf(Get(ParametersOf(details)[idx], K_name)) \o <<"}">>
NowAt == IndexOf(urlPath.s, NowPlaceholder)

\* the template without the placeholder is left as it is, and no error is raised
UnmatchedLeftAlone ==
    NowAt = 0 => (urlPath' = urlPath /\ outcome' = outcome /\ pc' = "params")

\* only the first occurrence is replaced, by the percent-encoded string form
\* of the value; everything after it, later occurrences included, stays
FirstOccurrenceOnly ==
    NowAt > 0 =>
        urlPath' = JStr(SubSeq(urlPath.s, 1, NowAt - 1)
                        \o encodeURIComponent(StringOf(value'))
                        \o SubSeq(urlPath.s, NowAt + Len(NowPlaceholder), Len(urlPath.s)))

\* no replaced character was put there by an earlier parameter
NothingRewritten ==
    NowAt > 0 => \A j \in NowAt..(NowAt + Len(NowPlaceholder) - 1) : origin[j] = 0

\* the braces of the replaced placeholder are characters of the template
BracesFromTemplate ==
    NowAt > 0 => (origin[NowAt] = 0 /\ origin[NowAt + Len(NowPlaceholder) - 1] = 0)

\* C3 as stated: each path parameter replaces only the first occurrence of its
\* placeholder by its percent-encoded value, leaves a template without the
\* placeholder unchanged without an error, and never rewrites a value that an
\* earlier path parameter substituted
C3_SubstitutionAsStated ==
    [][PathStep => (UnmatchedLeftAlone /\ FirstOccurrenceOnly /\ NothingRewritten)]_vars

\* C3 amended: as C3, except that the last part holds only of the placeholder's
\* braces: a later placeholder never begins or ends inside a substituted value
\* (a placeholder whose braces enclose one, as in {{a}}, is replaced with it)
C3_Substitution ==
    [][PathStep => (UnmatchedLeftAlone /\ FirstOccurrenceOnly /\ BracesFromTemplate)]_vars

\* a path parameter was substituted at the first occurrence of its placeholder
\* and a later occurrence of the same placeholder is still in the template
C3_Witness ==
    /\ tool = "sample" /\ pc = "params" /\ idx = 2
    /\ urlPath = JStr(<<"/", "b", "/", "{", "a", "}">>)
    /\ origin = <<0, 1, 0, 0, 0, 0>>

(***************************************************************************)
(* C4.  The final URL.                                                     *)
(***************************************************************************)
\* the parameters declared with the given location, in declaration order
ParametersIn(location) ==
    SelectSeq(ParametersOf(details), LAMBDA p : Get(p, K_in) = JStr(location))

\* the url of the first servers entry if there is one, else the fallback
ClaimedBase ==
    LET servers == Get(details, K_servers)
    IN IF IsArray(servers) /\ Len(servers.a) > 0 /\ Has(servers.a[1], K_url)
       THEN StringOf(Get(servers.a[1], K_url))
       ELSE DefaultServerUrl

\* the template after the path parameters alone, in declaration order
RECURSIVE SubstituteAll(_, _)
SubstituteAll(path, ps) ==
    IF Len(ps) = 0 THEN path
    ELSE SubstituteAll(
            StrReplace(path, <<"{">> \o StringOf(Get(ps[1], K_name)) \o <<"}">>,
                       encodeURIComponent(StringOf(ValueOf(ps[1])))),
            Tail(ps))

ClaimedPath ==
    SubstituteAll(IF Has(details, K_path) THEN Get(details, K_path).s ELSE params.path,
                  ParametersIn(S_path))

\* one name=value per query parameter, both percent-encoded
ClaimedQuery ==
    [i \in 1..Len(ParametersIn(S_query)) |->
        encodeURIComponent(StringOf(Get(ParametersIn(S_query)[i], K_name))) \o <<"=">>
            \o encodeURIComponent(StringOf(ValueOf(ParametersIn(S_query)[i])))]

\* C4: the final URL is the base URL, then the fully substituted path, then,
\* exactly when some parameter is a query parameter, ? and the query entries
\* joined with &: one encoded name=value per query parameter in declaration
\* order, whatever path and header parameters sit among them
C4_FinalUrl ==
    (tool = "sample" /\ (pc = "render" \/ (pc = "done" /\ outcome.kind = "returned")))
        => url = ClaimedBase \o ClaimedPath
                 \o (IF Len(ParametersIn(S_query)) > 0
                     THEN <<"?">> \o Join(ClaimedQuery, <<"&">>) ELSE <<>>)

\* a request was returned for two different query parameters with a path
\* parameter declared between them
C4_Witness ==
    /\ tool = "sample" /\ pc = "done" /\ outcome.kind = "returned"
    /\ Len(ParametersOf(details)) = 3
    /\ Get(ParametersOf(details)[1], K_in) = JStr(S_query)
    /\ Get(ParametersOf(details)[2], K_in) = JStr(S_path)
    /\ Get(ParametersOf(details)[3], K_in) = JStr(S_query)
    /\ ParametersOf(details)[1] # ParametersOf(details)[3]

(***************************************************************************)
(* C5.  The header sequence and the body.                                  *)
(***************************************************************************)
\* requestBody.content["application/json"] is there
ContentPresent == JsonContentOf(details).k = "object"

\* one name: value per header parameter, the value not percent-encoded
ClaimedHeaders ==
    [i \in 1..Len(ParametersIn(S_header)) |->
        StringOf(Get(ParametersIn(S_header)[i], K_name)) \o <<":", " ">>
            \o StringOf(ValueOf(ParametersIn(S_header)[i]))]

\* C5: the headers are one name: value line per header parameter in
\* declaration order, then Content-Type: application/json, last, exactly when
\* the application/json content is present; without that content the body is
\* undefined; parameters of any other location add no header and no query entry
C5_Headers ==
    Assembled =>
        /\ headers = ClaimedHeaders \o (IF ContentPresent THEN <<ContentTypeHeader>> ELSE <<>>)
        /\ (~ContentPresent => IsUndefined(body))
        /\ (ContentPresent => ~IsUndefined(body))
        /\ Len(queryParams) = Len(ParametersIn(S_query))

\* a request was returned with a header parameter and the JSON content: the
\* content type follows the parameter's header
C5_Witness ==
    /\ tool = "sample" /\ pc = "done" /\ outcome.kind = "returned"
    /\ ContentPresent
    /\ Len(headers) = 2 /\ headers[2] = ContentTypeHeader /\ headers[1] # ContentTypeHeader

(***************************************************************************)
(* C6.  The command string.                                                *)
(***************************************************************************)
\* the -H segments of the headers, in order
RECURSIVE HeaderSegments(_)
HeaderSegments(hs) ==
    IF Len(hs) = 0 THEN <<>>
    ELSE <<" ", "-", "H", " ", "'">> \o hs[1] \o <<"'">> \o HeaderSegments(Tail(hs))

\* C6: the returned string is curl -X METHOD 'url' with the caller's method
\* in upper case, one -H segment per header in order, then one -d segment
\* with the body as JSON exactly when the content is present, and nothing else
C6_Command ==
    (tool = "sample" /\ pc = "done" /\ outcome.kind = "returned") =>
        outcome.value =
            <<"c", "u", "r", "l", " ", "-", "X", " ">> \o toUpperCase(params.method)
            \o <<" ", "'">> \o url \o <<"'">>
            \o HeaderSegments(headers)
            \o (IF ContentPresent
                THEN <<" ", "-", "d", " ", "'">> \o JSONStringify(body) \o <<"'">>
                ELSE <<>>)

\* a request was returned whose body is the number 0, serialized as JSON
C6_Witness ==
    /\ tool = "sample" /\ pc = "done" /\ outcome.kind = "returned"
    /\ ContentPresent /\ body = JNum(0)
    /\ Len(headers) = 2

(***************************************************************************)
(* C7.  Details that are not structured data.                              *)
(***************************************************************************)
\* the text is not JSON, or is JSON that is not an object: null or a primitive
NotStructured(text) ==
    \/ ~text.json
    \/ JSONParse(text.doc).k \in {"null", "boolean", "number", "string"}

\* C7: whenever the details text is not structured data the sample tool ends
\* with the malformed-operation-document error and returns no command
C7_MalformedDetailsFail ==
    (tool = "sample" /\ promise.state = "fulfilled" /\ NotStructured(detailsText))
        => /\ outcome.kind # "returned"
           /\ (pc = "done" => outcome = Thrown(InvalidDetailsError))

(***************************************************************************)
(* C8.  The one request to the lookup collaborator.                        *)
(***************************************************************************)
\* the request the tool is to issue
ClaimedCall ==
    IF tool = "sample"
    THEN [fn |-> "getApiOperationDetails",
          args |-> <<Coalesce(context.apiSpecificationPath, params.apiSpecificationPath),
                     JStr(toUpperCase(params.method)), JStr(params.path)>>]
    ELSE [fn |-> "getApiOperations",
          args |-> <<Coalesce(context.apiSpecificationPath, params.apiSpecificationPath)>>]

\* exactly one request, issued first; a rejection is the outcome; after the
\* request has resolved the function is never at the await again
OneRequest ==
    /\ calls = (IF pc = "start" THEN <<>> ELSE <<ClaimedCall>>)
    /\ (promise.state \in {"none", "pending"}) =>
          /\ outcome = Pending
          /\ detailsText = NoText /\ response = NoText
          /\ details = JUndefined /\ parsed = JUndefined /\ command = <<>>
    /\ (promise.state = "rejected") =>
          (pc = "done" /\ outcome = Thrown(promise.reason)
             /\ detailsText = NoText /\ response = NoText)
    /\ (promise.state = "fulfilled") =>
          /\ pc \notin {"start", "await"}
          /\ (pc # "done" => outcome = Pending)
          /\ (pc = "done" => outcome.kind \in {"returned", "thrown"})

\* how far the function has come
Rank(position) ==
    CASE position \in {"start"} -> 0
      [] position \in {"await"} -> 1
      [] position \in {"parse"} -> 2
      [] position \in {"setup", "normalize"} -> 3
      [] position \in {"params", "filter"} -> 4
      [] position \in {"url", "return"} -> 5
      [] position \in {"render"} -> 6
      [] OTHER -> 7

\* a step moves the function on, or is one more iteration of the loop over
\* the parameters
Advances ==
    \/ Rank(pc') > Rank(pc)
    \/ pc = "params" /\ pc' = "params" /\ idx <= Len(ParametersOf(details)) /\ idx' = idx + 1

\* C8: an invocation issues exactly one request, before anything is parsed or
\* assembled, and never a second one; a rejection ends it with that same
\* failure and no result; once the request has resolved the invocation does
\* not wait again: every step takes it nearer its end, a result or an error
C8_OneRequest == []OneRequest /\ [][Advances]_vars

\* a search whose request was rejected has ended with the rejection
C8_Witness ==
    /\ tool = "search" /\ pc = "done" /\ Len(calls) = 1
    /\ promise.state = "rejected" /\ outcome = Thrown(promise.reason)

(***************************************************************************)
(* C9.  The search filter.                                                 *)
(***************************************************************************)
\* q occurs in s
IsSubstring(q, s) ==
    \E p \in 1..(Len(s) + 1) : p + Len(q) - 1 <= Len(s) /\ SubSeq(s, p, p + Len(q) - 1) = q

\* a field that is absent counts as the empty string
FieldText(op, key) == IF Get(op, key).k = "string" THEN Get(op, key).s ELSE <<>>

\* the lowercased tags; tags that are missing or no sequence count as none
TagSet(op) ==
    IF IsArray(Get(op, K_tags))
    THEN {toLowerCase(Get(op, K_tags).a[i].s) : i \in 1..Len(Get(op, K_tags).a)}
    ELSE {}

QueryHit(op) ==
    LET q == toLowerCase(params.query)
    IN \/ IsSubstring(q, toLowerCase(FieldText(op, K_summary)))
       \/ IsSubstring(q, toLowerCase(FieldText(op, K_description)))
       \/ \E t \in TagSet(op) : IsSubstring(q, t)

\* every given filter, the empty string included, must be one of the tags
TagHitAsStated(op) ==
    (~IsUndefined(params.tag)) => toLowerCase(params.tag.s) \in TagSet(op)

\* a filter that is given and not empty must be one of the tags
TagHit(op) ==
    (~IsUndefined(params.tag) /\ params.tag.s # <<>>)
        => toLowerCase(params.tag.s) \in TagSet(op)

\* the operation list of the response: the operations array, or the array itself
ListOf(text) ==
    LET p == JSONParse(text.doc)
    IN IF IsArray(Get(p, K_operations)) THEN Get(p, K_operations).a
       ELSE IF IsArray(p) THEN p.a ELSE <<>>

\* the fields the filter reads have the types the operations declare
WellFormedOperation(op) ==
    /\ op.k = "object"
    /\ Get(op, K_summary).k \in {"undefined", "null", "string"}
    /\ Get(op, K_description).k \in {"undefined", "null", "string"}
    /\ IsArray(Get(op, K_tags))
          => \A i \in 1..Len(Get(op, K_tags).a) : Get(op, K_tags).a[i].k = "string"

\* the search ended on a response that delivered a list of operations
SearchedList ==
    /\ tool = "search" /\ pc = "done" /\ promise.state = "fulfilled"
    /\ response.json /\ JSONParse(response.doc).k \in {"object", "array"}
    /\ \A i \in 1..Len(ListOf(response)) : WellFormedOperation(ListOf(response)[i])

C10_SearchNeverFails ==
    (tool = "search" /\ pc = "done" /\ promise.state = "fulfilled") =>
        /\ outcome.kind = "returned"
        /\ (~response.json => outcome.value = response.raw)
        /\ (response.json /\ ListOf(response) = <<>>) => outcome.value = <<"[", "]">>
====
